---- MODULE Spec2Model ----
(***************************************************************************)
(* Drupal dirtyforms (src/dirtyforms.js): the saved state of the forms of  *)
(* a page, the submit observer installed on each processed form, the       *)
(* isDirty comparison and the onBeforeUnload callback.                     *)
(*                                                                         *)
(* The page is a small fixed document: four forms and nine form elements   *)
(* whose attributes (id, name, type, class, value attribute) are static;   *)
(* what changes is which forms and elements are attached, the values and   *)
(* checked states of the elements, and the state of the tracker.           *)
(***************************************************************************)
EXTENDS Integers, Sequences, FiniteSets, TLC

\* ------------------------------------------------------------------------
\* Bounds
\* ------------------------------------------------------------------------

\* Number of distinct strings a text-like element may hold.
NumValues == 2

TextPool == <<"alpha", "beta", "gamma", "delta">>
TextValues == {TextPool[i] : i \in 1..NumValues}
DefaultText == TextPool[1]

\* ------------------------------------------------------------------------
\* JavaScript values
\* ------------------------------------------------------------------------

Null == "<null>"
Undefined == "<undefined>"
ReferenceError == "ReferenceError"
TypeError == "TypeError"
Errors == {ReferenceError, TypeError}

\* The CSS class that excludes forms and elements (src/dirtyforms.js:13).
ExcludeClass == "dirtyforms-exclude"

\* Drupal.dirtyForms.warning
warning == "Your changes will be lost if you leave this page now."

\* Drupal.dirtyForms._excludedElementTypes
_excludedElementTypes == <<"submit", "button", "reset", "image", "file">>

\* ------------------------------------------------------------------------
\* The document: static attributes of forms and form elements
\* ------------------------------------------------------------------------

\* Forms of the page, by node; id and class are the HTML attributes, handler
\* is the onsubmit handler the page gave the form before any processing.
Form ==
  [f1   |-> [id |-> "f1", class |-> {},             handler |-> "validate"],
   f2   |-> [id |-> "f2", class |-> {},             handler |-> Null],
   fx   |-> [id |-> "fx", class |-> {ExcludeClass}, handler |-> Null],
   anon |-> [id |-> "",   class |-> {},             handler |-> Null]]

FormNodes == DOMAIN Form

\* Forms that scripts attach to and detach from the document at run time.
DynamicForms == {"f2"}

\* Form elements of the page, by node, in document order.
ElementOrder ==
  <<"title", "sticky", "body", "keys", "solo", "submit", "filter", "opt_a", "opt_x">>

Element ==
  [title  |-> [form |-> "f1", id |-> "edit-title",  name |-> "title",  type |-> "text",
               class |-> {}, value |-> ""],
   sticky |-> [form |-> "f1", id |-> "edit-sticky", name |-> "sticky", type |-> "checkbox",
               class |-> {}, value |-> "1"],
   body   |-> [form |-> "f1", id |-> "edit-body",   name |-> "body",   type |-> "textarea",
               class |-> {}, value |-> ""],
   keys   |-> [form |-> "f1", id |-> "",            name |-> "keys",   type |-> "text",
               class |-> {}, value |-> ""],
   solo   |-> [form |-> "f1", id |-> "edit-solo",   name |-> "solo",   type |-> "radio",
               class |-> {}, value |-> "yes"],
   submit |-> [form |-> "f1", id |-> "edit-submit", name |-> "op",     type |-> "submit",
               class |-> {}, value |-> "Save"],
   filter |-> [form |-> "f1", id |-> "edit-filter", name |-> "",       type |-> "text",
               class |-> {}, value |-> "all"],
   opt_a  |-> [form |-> "f2", id |-> "edit-opt-a",  name |-> "opt",    type |-> "radio",
               class |-> {}, value |-> "a"],
   opt_x  |-> [form |-> "f2", id |-> "edit-opt-x",  name |-> "opt",    type |-> "radio",
               class |-> {ExcludeClass}, value |-> "x"]]

ElementNodes == DOMAIN Element

\* Elements whose value the user edits, elements with a checked state, and
\* elements that scripts add to and remove from their form at run time.
TextNodes == {"title", "body", "keys"}
CheckNodes == {"sticky", "opt_a", "opt_x", "solo"}
DynamicElements == {"title"}

\* The contexts saveState and clearState are called with: the document, or
\* the wrapper of one form. A context is the set of forms below it.
DocumentContext == FormNodes
Contexts == {DocumentContext} \cup {{f} : f \in FormNodes}

\* The rich text editor libraries a page may load (the globals probed by
\* _WYSIWYG.isEditor) and the editor attached to the textarea edit-body.
EditorKinds == {"none", "TinyMCE", "FCKeditor", "yui"}
LibraryOf == [TinyMCE |-> "tinyMCE", FCKeditor |-> "FCKeditorAPI", yui |-> "YAHOO"]
EditorTarget == "edit-body"

\* The pages considered, each given by the elements its forms have when it
\* is loaded: a page of plain fields, a page with a textarea, and a page
\* with a named text field that has no id and a radio button that is the
\* only one of its name. The submit button and the nameless filter box are
\* on all of them.
Layouts ==
  {{"title", "sticky", "submit", "filter", "opt_a", "opt_x"},
   {"title", "body", "submit", "filter"},
   {"keys", "solo", "submit", "filter"}}

\* The libraries a page loads and the editor it attaches to its textarea: a
\* page loads the library of the editor it uses, a page without an editor
\* may still load YAHOO (the YUI namespace) for other widgets, and a page
\* without a textarea loads none.
PageConfigs(layout) ==
  {c \in [globals : SUBSET {"tinyMCE", "FCKeditorAPI", "YAHOO"}, editor : EditorKinds] :
     /\ c.editor # "none" => c.globals = {LibraryOf[c.editor]}
     /\ c.editor = "none" => c.globals \subseteq {"YAHOO"}
     /\ "body" \notin layout => c.editor = "none" /\ c.globals = {}}

VARIABLES
  document,       \* forms attached to the document
  attached,       \* elements attached to their form
  value,          \* value[n]: current value of a text-like element
  checked,        \* checked[n]: checked state of a checkbox or radio
  onsubmit,       \* onsubmit[f]: form.onsubmit
  _dirtyForms,    \* _dirtyForms[f]: form._dirtyForms, for the forms that have one
  _savedElements, \* Drupal.dirtyForms._savedElements: form id -> element id -> record
  isSubmitted,    \* Drupal.dirtyForms.isSubmitted
  callbacks,      \* keys registered with Drupal.onBeforeUnload
  globals,        \* editor library globals that are defined
  editor,         \* kind of editor attached to edit-body
  editorDirty,    \* the editor's own modification flag
  trail,          \* saveState/clearState calls since the page last changed
  baseline        \* _savedElements as the first call of trail left it

vars == <<document, attached, value, checked, onsubmit, _dirtyForms, _savedElements,
          isSubmitted, callbacks, globals, editor, editorDirty, trail, baseline>>

dom == <<document, attached, value, checked>>
env == <<globals, editor, editorDirty>>

\* The empty object {}.
EmptyObject == <<>>

\* obj[k] = v on an object modelled as a function.
Put(obj, k, v) == [x \in DOMAIN obj \cup {k} |-> IF x = k THEN v ELSE obj[x]]

\* delete obj[k]
Delete(obj, k) == [x \in DOMAIN obj \ {k} |-> obj[x]]

\* ------------------------------------------------------------------------
\* DOM accessors
\* ------------------------------------------------------------------------

\* form.elements: the attached elements of a form, in document order.
FormElements(f) ==
  SelectSeq(ElementOrder, LAMBDA n : Element[n].form = f /\ n \in attached)

\* element.value
CurrentValue(n) == IF n \in TextNodes THEN value[n] ELSE Element[n].value

\* form.elements[name]: the elements of the form whose name or id is name.
NamedItem(f, name) ==
  SelectSeq(FormElements(f), LAMBDA n : Element[n].name = name \/ Element[n].id = name)

\* $.inArray(x, array): the zero-based index of x in array, -1 when absent.
inArray(x, array) ==
  IF \E i \in 1..Len(array) : array[i] = x
    THEN (CHOOSE i \in 1..Len(array) : array[i] = x /\ \A j \in 1..(i - 1) : array[j] # x) - 1
    ELSE -1

\* JavaScript truthiness of a number.
Truthy(num) == num # 0

\* ------------------------------------------------------------------------
\* Drupal.dirtyForms._getForms
\* ------------------------------------------------------------------------

\* The forms below context that are in the document, do not carry the
\* exclusion class and have a non-empty id, keyed by id.
_getForms(context) ==
  LET selected == {f \in context \cap document : ExcludeClass \notin Form[f].class}
      kept == {f \in selected : Form[f].id # ""}
  IN  [id \in {Form[f].id : f \in kept} |-> CHOOSE f \in kept : Form[f].id = id]

\* ------------------------------------------------------------------------
\* Drupal.dirtyForms._getElementValue
\* ------------------------------------------------------------------------

\* The first checked member of a radio list, null when there is none.
RECURSIVE FirstChecked(_, _)
FirstChecked(radio, i) ==
  IF i > Len(radio) THEN Null
  ELSE IF checked[radio[i]] THEN Element[radio[i]].value
  ELSE FirstChecked(radio, i + 1)

_getElementValue(n) ==
  IF Element[n].type = "checkbox"
    THEN (IF checked[n] THEN Element[n].value ELSE Null)
  ELSE IF Element[n].type = "radio"
    THEN LET radio == NamedItem(Element[n].form, Element[n].name)
         IN  \* A single match is the element itself, which has no length:
             \* the loop body never runs.
             IF Len(radio) < 2 THEN Null ELSE FirstChecked(radio, 1)
  ELSE CurrentValue(n)

\* ------------------------------------------------------------------------
\* Drupal.dirtyForms._getElements
\* ------------------------------------------------------------------------

\* The skip conditions without the test of the exclusion class.
Skipped_ignoresClass(n) ==
  \/ Element[n].name = ""
  \/ Element[n].id = ""
  \/ inArray(Element[n].type, _excludedElementTypes) >= 0

\* Whether the loop of _getElements skips the element.
Skipped(n) ==
  \/ Element[n].name = ""
  \/ Element[n].id = ""
  \/ inArray(Element[n].type, _excludedElementTypes) >= 0
  \/ ExcludeClass \in Element[n].class

RECURSIVE GetElementsLoop(_, _, _)
GetElementsLoop(els, i, elements) ==
  IF i > Len(els) THEN elements
  ELSE IF Skipped(els[i]) THEN GetElementsLoop(els, i + 1, elements)
  ELSE GetElementsLoop(els, i + 1,
         Put(elements, Element[els[i]].id,
             [id |-> Element[els[i]].id, name |-> Element[els[i]].name,
              type |-> Element[els[i]].type, value |-> _getElementValue(els[i])]))

_getElements(f) == GetElementsLoop(FormElements(f), 1, EmptyObject)

\* ------------------------------------------------------------------------
\* Drupal.dirtyForms._WYSIWYG
\* ------------------------------------------------------------------------

\* library.get(id) / GetInstance(id) / getEditorById(id): whether the
\* library of the given kind has an editor for the element id.
HasEditor(kind, id) == editor = kind /\ id = EditorTarget

\* Whether the editor object has an isDirty method: TinyMCE and FCKeditor
\* editors are only recognised with one; a YUI editor has the editorDirty
\* property and no such method.
HasIsDirtyMethod(kind) == kind \in {"TinyMCE", "FCKeditor"}

\* _WYSIWYG.isEditor: "false", the type of the editor found, or the error
\* thrown. YAHOO is read without a typeof guard: undeclared, it throws.
WYSIWYG_isEditor(element) ==
  IF element.type # "textarea" THEN "false"
  ELSE IF "tinyMCE" \in globals /\ HasEditor("TinyMCE", element.id)
            /\ HasIsDirtyMethod("TinyMCE") THEN "TinyMCE"
  ELSE IF "FCKeditorAPI" \in globals /\ HasEditor("FCKeditor", element.id)
            /\ HasIsDirtyMethod("FCKeditor") THEN "FCKeditor"
  ELSE IF "YAHOO" \notin globals THEN ReferenceError
  ELSE IF HasEditor("yui", element.id) THEN "yui"
  ELSE "false"

\* _WYSIWYG.isDirty: "true", "false" or the error thrown. The result of
\* $.inArray is used as the condition: an index, true unless it is 0.
WYSIWYG_isDirty(type) ==
  IF Truthy(inArray(type, <<"TinyMCE", "FCKeditor">>))
    THEN IF ~HasIsDirtyMethod(type) THEN TypeError
         ELSE IF editorDirty THEN "true" ELSE "false"
  ELSE IF type = "yui"
    THEN IF editorDirty THEN "true" ELSE "false"
  ELSE "false"

\* ------------------------------------------------------------------------
\* Drupal.dirtyForms._isElementChanged
\* ------------------------------------------------------------------------

\* "true", "false" or the error thrown.
_isElementChanged(currentElement, savedElement) ==
  IF currentElement.value # savedElement.value
    THEN LET editorInfo == WYSIWYG_isEditor(currentElement)
         IN  IF editorInfo \in Errors THEN editorInfo
             ELSE IF editorInfo = "false" THEN "true"
             ELSE LET dirty == WYSIWYG_isDirty(editorInfo)
                  IN  IF dirty \in Errors THEN dirty
                      ELSE IF dirty = "false" THEN "false"
                      ELSE "true"
  ELSE "false"

\* ------------------------------------------------------------------------
\* Drupal.dirtyForms.isDirty
\* ------------------------------------------------------------------------

\* for (key in object) visits the keys in an order the language leaves to
\* the implementation. A loop whose body can return or throw ends at the
\* first key, in that order, whose body does; Continue stands for the loop
\* running to its end. The outcomes of a loop are therefore the outcomes of
\* any key's body, and Continue when every body can fall through.
Continue == "<continue>"

ForIn(keys, Body(_)) ==
  UNION {Body(k) \ {Continue} : k \in keys}
    \cup (IF \A k \in keys : Continue \in Body(k) THEN {Continue} ELSE {})

\* A statement followed by another.
Then(first, second) ==
  (first \ {Continue}) \cup (IF Continue \in first THEN second ELSE {})

\* The body of the second loop of isDirty for one saved form.
SavedFormBody(saved, currentForms, formId) ==
  IF formId \notin DOMAIN currentForms THEN {"true"}
  ELSE LET currentElements == _getElements(currentForms[formId])
           savedElements == saved[formId]
       IN  Then(ForIn(DOMAIN savedElements,
                      LAMBDA elementId :
                        IF elementId \notin DOMAIN currentElements THEN {"true"}
                        ELSE LET changed == _isElementChanged(currentElements[elementId],
                                                              savedElements[elementId])
                             IN  IF changed = "false" THEN {Continue} ELSE {changed}),
                ForIn(DOMAIN currentElements,
                      LAMBDA elementId :
                        IF elementId \notin DOMAIN savedElements THEN {"true"}
                        ELSE {Continue}))

\* isDirty against a given saved state: the set of results the call can
\* have ("true", "false", or an error thrown), over the enumeration orders.
isDirtyAgainst(saved) ==
  LET currentForms == _getForms(DocumentContext)
      outcomes ==
        Then(ForIn(DOMAIN currentForms,
                   LAMBDA formId : IF formId \notin DOMAIN saved THEN {"true"} ELSE {Continue}),
             ForIn(DOMAIN saved,
                   LAMBDA formId : SavedFormBody(saved, currentForms, formId)))
  IN  Then(outcomes, {"false"})

isDirty == isDirtyAgainst(_savedElements)

\* ------------------------------------------------------------------------
\* Drupal.dirtyForms._onBeforeUnload
\* ------------------------------------------------------------------------

\* The results the callback can have: the warning, Undefined (no return
\* statement is reached) or an error thrown by isDirty.
_onBeforeUnload ==
  IF isSubmitted THEN {Undefined}
  ELSE {IF d = "true" THEN warning ELSE IF d = "false" THEN Undefined ELSE d : d \in isDirty}

\* ------------------------------------------------------------------------
\* Drupal.dirtyForms.addForm, removeForm, saveState, clearState
\* ------------------------------------------------------------------------

\* The tracker's state and the form properties it writes, as one value:
\* saved is _savedElements, df is form._dirtyForms, onsubmit is form.onsubmit.
Tracker == [saved |-> _savedElements, df |-> _dirtyForms, onsubmit |-> onsubmit]

OnSubmitObserver == "_onSubmit"

\* addForm that installs the observer on every call.
addForm_alwaysInstalls(T, f) ==
  LET formId == Form[f].id
  IN  [saved    |-> Put(T.saved, formId, _getElements(f)),
       df       |-> Put(T.df, f, [previousOnSubmit |-> T.onsubmit[f], formId |-> formId]),
       onsubmit |-> [T.onsubmit EXCEPT ![f] = OnSubmitObserver]]

\* addForm that keeps the snapshot a form already has.
addForm_keepsSnapshot(T, f) ==
  LET formId == Form[f].id
      fresh == f \notin DOMAIN T.df
  IN  [saved    |-> IF formId \in DOMAIN T.saved THEN T.saved
                    ELSE Put(T.saved, formId, _getElements(f)),
       df       |-> IF fresh
                      THEN Put(T.df, f, [previousOnSubmit |-> T.onsubmit[f],
                                         formId |-> formId])
                      ELSE T.df,
       onsubmit |-> IF fresh THEN [T.onsubmit EXCEPT ![f] = OnSubmitObserver]
                    ELSE T.onsubmit]

addForm(T, f) ==
  LET formId == Form[f].id
      fresh == f \notin DOMAIN T.df
  IN  [saved    |-> Put(T.saved, formId, _getElements(f)),
       df       |-> IF fresh
                      THEN Put(T.df, f, [previousOnSubmit |-> T.onsubmit[f],
                                         formId |-> formId])
                      ELSE T.df,
       onsubmit |-> IF fresh THEN [T.onsubmit EXCEPT ![f] = OnSubmitObserver]
                    ELSE T.onsubmit]

\* removeForm that leaves the observer on the form.
removeForm_keepsObserver(T, f) ==
  IF f \in DOMAIN T.df /\ T.df[f].formId \in DOMAIN T.saved
    THEN [saved    |-> Delete(T.saved, T.df[f].formId),
          df       |-> Delete(T.df, f),
          onsubmit |-> T.onsubmit]
    ELSE T

removeForm(T, f) ==
  IF f \in DOMAIN T.df /\ T.df[f].formId \in DOMAIN T.saved
    THEN [saved    |-> Delete(T.saved, T.df[f].formId),
          df       |-> Delete(T.df, f),
          onsubmit |-> [T.onsubmit EXCEPT ![f] = T.df[f].previousOnSubmit]]
    ELSE T

\* for (formId in forms) Op(forms[formId]): each call touches its own form
\* and its own key only.
RECURSIVE ForEachForm(_, _, _)
ForEachForm(Op(_, _), T, forms) ==
  IF forms = {} THEN T
  ELSE LET f == CHOOSE x \in forms : TRUE
       IN  ForEachForm(Op, Op(T, f), forms \ {f})

FormsOf(obj) == {obj[k] : k \in DOMAIN obj}

saveState(T, context) == ForEachForm(addForm, T, FormsOf(_getForms(context)))

clearState(T, context) ==
  [ForEachForm(removeForm, T, FormsOf(_getForms(context))) EXCEPT !.saved = EmptyObject]

\* ------------------------------------------------------------------------
\* Bookkeeping of the calls made while the page stays unchanged
\* ------------------------------------------------------------------------

Call(op, context) == [op |-> op, context |-> context]

LastCall == trail[Len(trail)]

\* The last operation was saveState(context).
JustSaved(context) == trail # <<>> /\ LastCall = Call("saveState", context)

PageChanged == trail' = <<>> /\ baseline' = EmptyObject

\* ------------------------------------------------------------------------
\* Initial state: the page as loaded, before the behavior runs
\* ------------------------------------------------------------------------

Init ==
  /\ document = FormNodes
  /\ attached \in Layouts
  /\ value = [n \in TextNodes |-> DefaultText]
  /\ checked = [n \in CheckNodes |-> FALSE]
  /\ onsubmit = [f \in FormNodes |-> Form[f].handler]
  /\ _dirtyForms = EmptyObject
  /\ _savedElements = EmptyObject
  /\ isSubmitted = FALSE
  /\ callbacks = {}
  /\ \E c \in PageConfigs(attached) : globals = c.globals /\ editor = c.editor
  /\ editorDirty = FALSE
  /\ trail = <<>>
  /\ baseline = EmptyObject

\* ------------------------------------------------------------------------
\* Operations of the tracker
\* ------------------------------------------------------------------------

SetTracker(T) ==
  /\ _savedElements' = T.saved
  /\ _dirtyForms' = T.df
  /\ onsubmit' = T.onsubmit

\* Drupal.dirtyForms.saveState(context)
SaveState(context) ==
  /\ SetTracker(saveState(Tracker, context))
  /\ IF Len(trail) = 2 /\ trail[1].context = context /\ trail[2].context = context
       THEN trail' = Append(trail, Call("saveState", context)) /\ baseline' = baseline
       ELSE trail' = <<Call("saveState", context)>> /\ baseline' = _savedElements'
  /\ UNCHANGED <<dom, env, isSubmitted, callbacks>>

\* Drupal.dirtyForms.clearState(context)
ClearState(context) ==
  /\ SetTracker(clearState(Tracker, context))
  /\ IF JustSaved(context)
       THEN /\ trail' = <<Call("saveState", context), Call("clearState", context)>>
            /\ baseline' = IF Len(trail) = 1 THEN baseline ELSE _savedElements
       ELSE PageChanged
  /\ UNCHANGED <<dom, env, isSubmitted, callbacks>>

\* The behavior without the callbackExists guard.
Behavior_unguarded(context) ==
  /\ callbacks' = callbacks \cup {"dirtyforms"}
  /\ SetTracker(saveState(Tracker, context))
  /\ trail' = <<Call("saveState", context)>>
  /\ baseline' = _savedElements'
  /\ UNCHANGED <<dom, env, isSubmitted>>

\* Drupal.behaviors.dirtyForms(context)
Behavior(context) ==
  IF "dirtyforms" \notin callbacks
    THEN /\ callbacks' = callbacks \cup {"dirtyforms"}
         /\ SetTracker(saveState(Tracker, context))
         /\ trail' = <<Call("saveState", context)>>
         /\ baseline' = _savedElements'
         /\ UNCHANGED <<dom, env, isSubmitted>>
    ELSE UNCHANGED vars

\* What a page's own submit handler may return.
HandlerReturns(handler) == IF handler = Null THEN {TRUE} ELSE BOOLEAN

\* typeof handler == 'function'
IsFunction(handler) == handler # Null

\* The event object the browser passes to form.onsubmit.
SubmitEvent == "event"

\* A call of a handler: the function, its receiver (this) and its argument.
\* The receiver is the form itself or the object kept in form._dirtyForms.
TheForm(f) == <<"form", f>>
TheDirtyFormsObject(f) == <<"form._dirtyForms", f>>

\* _onSubmit that answers true whatever the previous handler returns.
_onSubmitReturns_alwaysTrue(f, handlerReturn) == TRUE

\* What _onSubmit returns, running on form f, when the previous handler (if
\* it is called) returns handlerReturn.
_onSubmitReturns(f, handlerReturn) ==
  IF IsFunction(_dirtyForms[f].previousOnSubmit) THEN handlerReturn ELSE TRUE

\* The calls _onSubmit makes, running on form f with the given event:
\* this._dirtyForms.previousOnSubmit(event) is a method call on the object
\* this._dirtyForms.
_onSubmitCalls(f, event) ==
  IF IsFunction(_dirtyForms[f].previousOnSubmit)
    THEN <<[handler |-> _dirtyForms[f].previousOnSubmit,
            this |-> TheDirtyFormsObject(f),
            argument |-> event]>>
    ELSE <<>>

\* _onSubmit that takes the flag back when the previous handler cancels.
_onSubmit_resettable(f) ==
  \E returned \in HandlerReturns(_dirtyForms[f].previousOnSubmit) :
    isSubmitted' = returned

\* Drupal.dirtyForms._onSubmit, with the form f as this. The value returned
\* (that of the previous handler, or true) does not change the state.
_onSubmit(f) ==
  /\ isSubmitted' = TRUE
  /\ \E returned \in HandlerReturns(_dirtyForms[f].previousOnSubmit) : TRUE

\* The user submits form f: the browser calls form.onsubmit.
Submit(f) ==
  /\ f \in document
  /\ onsubmit[f] = OnSubmitObserver
  /\ _onSubmit(f)
  /\ PageChanged
  /\ UNCHANGED <<dom, env, onsubmit, _dirtyForms, _savedElements, callbacks>>

\* ------------------------------------------------------------------------
\* Changes of the page made by the user and by other scripts
\* ------------------------------------------------------------------------

tracker == <<onsubmit, _dirtyForms, _savedElements, isSubmitted, callbacks>>

SetValue(n, v) ==
  /\ n \in TextNodes /\ n \in attached
  /\ v # value[n]
  /\ value' = [value EXCEPT ![n] = v]
  /\ PageChanged
  /\ UNCHANGED <<document, attached, checked, env, tracker>>

ToggleCheckbox(n) ==
  /\ Element[n].type = "checkbox" /\ n \in attached
  /\ checked' = [checked EXCEPT ![n] = ~checked[n]]
  /\ PageChanged
  /\ UNCHANGED <<document, attached, value, env, tracker>>

\* Checking a radio button unchecks the other buttons of its group.
SelectRadio(n) ==
  /\ Element[n].type = "radio" /\ n \in attached
  /\ ~checked[n]
  /\ checked' = [m \in CheckNodes |->
                   IF m = n THEN TRUE
                   ELSE IF Element[m].type = "radio" /\ Element[m].form = Element[n].form
                           /\ Element[m].name = Element[n].name THEN FALSE
                   ELSE checked[m]]
  /\ PageChanged
  /\ UNCHANGED <<document, attached, value, env, tracker>>

\* A script (or a form reset) unchecks a radio button.
DeselectRadio(n) ==
  /\ Element[n].type = "radio" /\ n \in attached
  /\ checked[n]
  /\ checked' = [checked EXCEPT ![n] = FALSE]
  /\ PageChanged
  /\ UNCHANGED <<document, attached, value, env, tracker>>

\* A script removes an element from its form.
DetachElement(n) ==
  /\ n \in DynamicElements /\ n \in attached
  /\ attached' = attached \ {n}
  /\ value' = [value EXCEPT ![n] = DefaultText]
  /\ PageChanged
  /\ UNCHANGED <<document, checked, env, tracker>>

\* A script adds an element to its form, with some value.
AttachElement(n, v) ==
  /\ n \in DynamicElements /\ n \notin attached
  /\ attached' = attached \cup {n}
  /\ value' = [value EXCEPT ![n] = v]
  /\ PageChanged
  /\ UNCHANGED <<document, checked, env, tracker>>

DetachForm(f) ==
  /\ f \in DynamicForms /\ f \in document
  /\ document' = document \ {f}
  /\ PageChanged
  /\ UNCHANGED <<attached, value, checked, env, tracker>>

AttachForm(f) ==
  /\ f \in DynamicForms /\ f \notin document
  /\ document' = document \cup {f}
  /\ PageChanged
  /\ UNCHANGED <<attached, value, checked, env, tracker>>

\* The rich text editor sets or resets its own modification flag.
EditorChange ==
  /\ editor # "none"
  /\ editorDirty' = ~editorDirty
  /\ PageChanged
  /\ UNCHANGED <<dom, globals, editor, tracker>>

Next ==
  \/ \E context \in Contexts : Behavior(context)
  \/ \E context \in Contexts : SaveState(context)
  \/ \E context \in Contexts : ClearState(context)
  \/ \E f \in FormNodes : Submit(f)
  \/ \E n \in TextNodes, v \in TextValues : SetValue(n, v)
  \/ \E n \in CheckNodes : ToggleCheckbox(n)
  \/ \E n \in CheckNodes : SelectRadio(n)
  \/ \E n \in CheckNodes : DeselectRadio(n)
  \/ \E n \in DynamicElements : DetachElement(n)
  \/ \E n \in DynamicElements, v \in TextValues : AttachElement(n, v)
  \/ \E f \in DynamicForms : DetachForm(f)
  \/ \E f \in DynamicForms : AttachForm(f)
  \/ EditorChange

Spec == Init /\ [][Next]_vars

\* ------------------------------------------------------------------------
\* Types
\* ------------------------------------------------------------------------

TypeOK ==
  /\ document \subseteq FormNodes
  /\ attached \subseteq ElementNodes
  /\ value \in [TextNodes -> TextValues]
  /\ checked \in [CheckNodes -> BOOLEAN]
  /\ isSubmitted \in BOOLEAN
  /\ callbacks \subseteq {"dirtyforms"}
  /\ isDirty \subseteq {"true", "false"} \cup Errors
  /\ isDirty # {}
  /\ Len(trail) <= 3

\* ------------------------------------------------------------------------
\* Vocabulary of the properties
\* ------------------------------------------------------------------------

\* The trackable forms of the document, keyed by id.
CurrentForms == _getForms(DocumentContext)

\* The forms that are present with a saved state.
ComparedForms == DOMAIN CurrentForms \cap DOMAIN _savedElements

\* The elements of a compared form that are present with a saved state.
ComparedElements(formId) ==
  DOMAIN _getElements(CurrentForms[formId]) \cap DOMAIN _savedElements[formId]

\* The element's value as read now differs from its saved value.
ValueDiffers(formId, elementId) ==
  _getElements(CurrentForms[formId])[elementId].value
    # _savedElements[formId][elementId].value

\* A form or an element was added or removed since the state was saved.
StructureDiffers ==
  \/ DOMAIN CurrentForms # DOMAIN _savedElements
  \/ \E formId \in ComparedForms :
       DOMAIN _getElements(CurrentForms[formId]) # DOMAIN _savedElements[formId]

\* The element is the textarea of a rich text editor.
IsRichText(elementId) == editor # "none" /\ elementId = EditorTarget

\* The textarea edit-body is compared and its raw value differs.
BodyDiffers ==
  /\ "f1" \in ComparedForms
  /\ EditorTarget \in ComparedElements("f1")
  /\ ValueDiffers("f1", EditorTarget)

\* ------------------------------------------------------------------------
\* C1
\* ------------------------------------------------------------------------

\* Every form below the context that the document holds is trackable.
OnlyTrackable(context) ==
  \A f \in context \cap document : ExcludeClass \notin Form[f].class /\ Form[f].id # ""

\* C1 as stated: immediately after saveState(scope), for a scope that
\* contains only trackable forms, isDirty() returns false.
C1_FreshSnapshotClean ==
  \A context \in Contexts :
    JustSaved(context) /\ OnlyTrackable(context) => isDirty = {"false"}

\* Every trackable form of the document is below the context, and every
\* form with a saved state is still in the document.
Covers(context) ==
  /\ DOMAIN CurrentForms \subseteq DOMAIN _getForms(context)
  /\ DOMAIN _savedElements \subseteq DOMAIN CurrentForms

\* C1 amended: immediately after saveState(scope), isDirty() returns false
\* provided every trackable form of the document lies in the scope and every
\* form that has a saved state is still present in the document.
C1_FreshSnapshotCleanWhenCovering ==
  \A context \in Contexts :
    JustSaved(context) /\ Covers(context) => isDirty = {"false"}

\* A covering snapshot of a single form, taken after the title was edited
\* and the other form was removed and cleared.
C1_Witness ==
  /\ JustSaved({"f1"}) /\ Covers({"f1"})
  /\ "f1" \in DOMAIN _savedElements
  /\ "edit-title" \in DOMAIN _savedElements["f1"]
  /\ _savedElements["f1"]["edit-title"].value # DefaultText

\* ------------------------------------------------------------------------
\* C2
\* ------------------------------------------------------------------------

\* C2: the before-unload callback returns the warning exactly when the
\* submitted flag is false and isDirty() is true, and returns undefined in
\* every other state.
C2_BeforeUnloadResult ==
  /\ _onBeforeUnload \subseteq {warning, Undefined}
  /\ warning \in _onBeforeUnload <=> (~isSubmitted /\ "true" \in isDirty)
  /\ Undefined \in _onBeforeUnload <=> (isSubmitted \/ "true" \notin isDirty)

\* ------------------------------------------------------------------------
\* C3
\* ------------------------------------------------------------------------

\* C3: a run of the submit observer leaves the submitted flag true, no
\* operation takes it back, and while it is true the before-unload callback
\* returns undefined whatever the dirty state is.
C3_SubmittedSuppressesWarning ==
  /\ [][/\ (\E f \in FormNodes : Submit(f)) => isSubmitted'
        /\ isSubmitted => isSubmitted']_vars
  /\ [](isSubmitted => _onBeforeUnload = {Undefined})

\* A form was submitted, the state was saved again afterwards, and the page
\* is dirty.
C3_Witness ==
  /\ isSubmitted
  /\ trail # <<>>
  /\ isDirty = {"true"}
  /\ _onBeforeUnload = {Undefined}

\* ------------------------------------------------------------------------
\* C4
\* ------------------------------------------------------------------------

\* C4: when the value read for a compared element that is not a rich text
\* editor differs from its saved value, isDirty() is true; when nothing was
\* added or removed and every compared element reads its saved value,
\* isDirty() is false.
C4_ValueChangeDetected ==
  /\ (\E formId \in ComparedForms : \E elementId \in ComparedElements(formId) :
        ~IsRichText(elementId) /\ ValueDiffers(formId, elementId))
       => isDirty = {"true"}
  /\ (/\ ~StructureDiffers
      /\ \A formId \in ComparedForms : \A elementId \in ComparedElements(formId) :
           ~ValueDiffers(formId, elementId))
       => isDirty = {"false"}

\* ------------------------------------------------------------------------
\* C5
\* ------------------------------------------------------------------------

\* C5: isDirty() is true when a trackable form is present without a saved
\* state, a saved form is no longer present, or a trackable element was
\* added to or removed from a saved form. Stated in its weakest form, for
\* at least one enumeration order of the loops: its failure is a state in
\* which isDirty() returns true in no order at all.
C5_StructuralChangeDetected == StructureDiffers => "true" \in isDirty

\* ------------------------------------------------------------------------
\* C6
\* ------------------------------------------------------------------------

\* The step changes nothing of the page but the checked state of elements
\* that carry the exclusion class, and nothing of the tracker.
OnlyExcludedChanged ==
  /\ checked' # checked
  /\ \A n \in CheckNodes : ExcludeClass \notin Element[n].class => checked'[n] = checked[n]
  /\ UNCHANGED <<document, attached, value, env, tracker>>

\* C6: two page states that differ only in excluded elements give the same
\* isDirty() result.
C6_ExcludedNeverContributes == [][OnlyExcludedChanged => isDirty' = isDirty]_vars

\* ------------------------------------------------------------------------
\* C7
\* ------------------------------------------------------------------------

\* C7: when the textarea belongs to a recognised editor, the editor reports
\* dirty and the raw value differs from the saved value, isDirty() is true.
C7_EditorDirtyKept ==
  editor # "none" /\ editorDirty /\ BodyDiffers => isDirty = {"true"}

\* ------------------------------------------------------------------------
\* C8
\* ------------------------------------------------------------------------

\* C8: when the textarea belongs to a recognised editor, the editor reports
\* not dirty and the raw value differs from the saved value, isDirty()
\* completes and the textarea counts as not changed.
C8_EditorCleanOverrides ==
  editor # "none" /\ ~editorDirty /\ BodyDiffers =>
    /\ isDirty \cap Errors = {}
    /\ _isElementChanged(_getElements("f1")[EditorTarget],
                         _savedElements["f1"][EditorTarget]) = "false"

\* ------------------------------------------------------------------------
\* C9
\* ------------------------------------------------------------------------

\* C9: when none of the editor globals is defined and the raw value of a
\* textarea differs from its saved value, editor detection answers false and
\* isDirty() completes with true.
C9_NoLibraryNoThrow ==
  globals = {} /\ BodyDiffers =>
    /\ WYSIWYG_isEditor(_getElements("f1")[EditorTarget]) = "false"
    /\ isDirty = {"true"}

\* ------------------------------------------------------------------------
\* C10
\* ------------------------------------------------------------------------

\* C10: after saveState(scope), clearState(scope), saveState(scope) on an
\* unchanged page the saved state is that of the first saveState, every
\* saved form carries the submit observer with its original handler
\* recorded, and isDirty() is false if it was after the first saveState.
C10_ClearThenSaveRestores ==
  Len(trail) = 3 =>
    /\ _savedElements = baseline
    /\ \A f \in FormNodes :
         Form[f].id \in DOMAIN _savedElements =>
           /\ onsubmit[f] = OnSubmitObserver
           /\ f \in DOMAIN _dirtyForms
           /\ _dirtyForms[f].previousOnSubmit = Form[f].handler
    /\ isDirtyAgainst(baseline) = {"false"} => isDirty = {"false"}

\* ------------------------------------------------------------------------
\* C11
\* ------------------------------------------------------------------------

\* The forms that carry the submit observer.
Observed == {f \in FormNodes : onsubmit[f] = OnSubmitObserver}

\* C11: the submit observer of a form returns what the handler the form had
\* before returns, and true when the form had none.
C11_ObserverReturnsHandlerResult ==
  \A f \in Observed :
    \A handlerReturn \in HandlerReturns(Form[f].handler) :
      _onSubmitReturns(f, handlerReturn)
        = IF IsFunction(Form[f].handler) THEN handlerReturn ELSE TRUE

\* The observer is on a form with a handler and on a form without one, and
\* it has run.
C11_Witness == Observed = {"f1", "f2"} /\ isSubmitted

\* ------------------------------------------------------------------------
\* C12
\* ------------------------------------------------------------------------

\* C12: the observer calls the handler the form had before exactly once,
\* with the event it was given and with the form as this.
C12_ObserverPreservesInvocation ==
  \A f \in Observed :
    _onSubmitCalls(f, SubmitEvent)
      = IF IsFunction(Form[f].handler)
          THEN <<[handler |-> Form[f].handler, this |-> TheForm(f),
                  argument |-> SubmitEvent]>>
          ELSE <<>>

\* ------------------------------------------------------------------------
\* C13
\* ------------------------------------------------------------------------

\* The element has a name, a processed type and no exclusion class.
Processable(n) ==
  /\ Element[n].name # ""
  /\ Element[n].type \notin {_excludedElementTypes[i] : i \in 1..Len(_excludedElementTypes)}
  /\ ExcludeClass \notin Element[n].class

\* The step changes the value of element n and nothing else of the page or
\* of the tracker.
OnlyValueChanged(n) ==
  /\ value'[n] # value[n]
  /\ \A m \in TextNodes \ {n} : value'[m] = value[m]
  /\ UNCHANGED <<document, attached, checked, env, tracker>>

\* C13: changing the value of an attached element that has a name, a
\* processed type and no exclusion class, in a form whose state is saved and
\* clean, makes isDirty() true, with or without an id. Stated for the types
\* other than textarea, whose comparison involves no editor.
C13_NamedFieldTracked ==
  [][\A n \in TextNodes :
       /\ OnlyValueChanged(n)
       /\ n \in attached /\ Processable(n) /\ Element[n].type # "textarea"
       /\ Form[Element[n].form].id \in ComparedForms
       /\ isDirty = {"false"}
       => isDirty' = {"true"}]_vars

\* ------------------------------------------------------------------------
\* C14
\* ------------------------------------------------------------------------

\* The step is a call of saveState, directly or from the behavior, as the
\* history records it.
SaveStep == trail' # <<>> /\ trail'[Len(trail')].op = "saveState"

\* The step is a call of clearState(context): it is not one of saveState,
\* changes nothing of the page and leaves the tracker as clearState does.
ClearStep(context) ==
  /\ ~SaveStep
  /\ UNCHANGED <<dom, env, isSubmitted, callbacks>>
  /\ Tracker' = clearState(Tracker, context)

C15_ObserverInstalledOnce ==
  /\ [](\A f \in FormNodes :
          IF f \in DOMAIN _dirtyForms
            THEN /\ onsubmit[f] = OnSubmitObserver
                 /\ _dirtyForms[f].previousOnSubmit = Form[f].handler
                 /\ _dirtyForms[f].previousOnSubmit # OnSubmitObserver
            ELSE onsubmit[f] = Form[f].handler)
  /\ [][SaveStep =>
          \A f \in DOMAIN _dirtyForms :
            /\ f \in DOMAIN _dirtyForms' /\ _dirtyForms'[f] = _dirtyForms[f]
            /\ onsubmit'[f] = onsubmit[f]]_vars

\* saveState, clearState, saveState on the wrapper of f2 after both forms
\* were processed: f1 kept its observer throughout, f2 got it again.
C15_Witness ==
  /\ Len(trail) = 3 /\ trail[1].context = {"f2"}
  /\ DOMAIN _dirtyForms = {"f1", "f2"}
  /\ DOMAIN _savedElements = {"f2"}

\* ------------------------------------------------------------------------
\* C16
\* ------------------------------------------------------------------------

\* C16: every key of _savedElements is the non-empty id of a form without
\* the exclusion class, and every saved element has a non-empty id, no
\* exclusion class and a type outside the excluded types.
C16_SavedAreTrackable ==
  \A formId \in DOMAIN _savedElements :
    /\ formId # ""
    /\ \A f \in FormNodes : Form[f].id = formId => ExcludeClass \notin Form[f].class
    /\ \A elementId \in DOMAIN _savedElements[formId] :
         /\ elementId # ""
         /\ _savedElements[formId][elementId].id = elementId
         /\ inArray(_savedElements[formId][elementId].type, _excludedElementTypes) = -1
         /\ \A n \in ElementNodes :
              Element[n].id = elementId => ExcludeClass \notin Element[n].class

\* Both trackable forms are saved while the excluded form, the form without
\* id, an excluded radio, a submit button and a nameless field are present.
C16_Witness ==
  /\ DOMAIN _savedElements = {"f1", "f2"}
  /\ {"fx", "anon"} \subseteq document
  /\ {"opt_a", "opt_x", "submit", "filter"} \subseteq attached
  /\ DOMAIN _savedElements["f2"] = {"edit-opt-a"}
  /\ DOMAIN _savedElements["f1"] = {"edit-title", "edit-sticky"}

\* ------------------------------------------------------------------------
\* C17
\* ------------------------------------------------------------------------

\* The attached radio buttons of the form and name of n.
RadioGroup(n) ==
  {m \in attached : /\ Element[m].type = "radio"
                    /\ Element[m].form = Element[n].form
                    /\ Element[m].name = Element[n].name}

\* C17: the value read for a radio button is the value of the checked button
\* of its group, and null when none is checked, whatever the size of the
\* group.
C17_RadioValue ==
  \A n \in attached :
    Element[n].type = "radio" =>
      _getElementValue(n)
        = IF \E m \in RadioGroup(n) : checked[m]
            THEN Element[CHOOSE m \in RadioGroup(n) : checked[m]].value
            ELSE Null

\* ------------------------------------------------------------------------
\* C18
\* ------------------------------------------------------------------------

\* C18: _savedElements changes only in saveState and clearState steps, and
\* isDirty() has one result whatever order the loops enumerate in. (isDirty
\* and _onBeforeUnload are operators over the state: they assign nothing.)
C18_ReadOnlyAndOrderIndependent ==
  [][/\ _savedElements' # _savedElements =>
          \E context \in Contexts :
            SaveState(context) \/ ClearState(context) \/ Behavior(context)
     /\ Cardinality(isDirty') = 1]_vars

\* ------------------------------------------------------------------------
\* C19
\* ------------------------------------------------------------------------

\* C19: only the callback dirtyforms is ever registered, it is registered
\* in a step that saves the state, an invocation of the behavior that finds
\* it registered changes nothing of the tracker, and once it is registered a
\* trackable form of the document without a saved state makes isDirty() true.
C19_BehaviorSnapshotsOnce ==
  /\ [](callbacks \subseteq {"dirtyforms"})
  /\ [][callbacks' # callbacks =>
          /\ callbacks = {} /\ SaveStep /\ Len(trail') = 1
          /\ baseline' = _savedElements']_vars
  /\ [][\A context \in Contexts :
          "dirtyforms" \in callbacks /\ Behavior(context) =>
            UNCHANGED <<tracker, callbacks>>]_vars
  /\ [](callbacks # {} /\ DOMAIN CurrentForms \ DOMAIN _savedElements # {}
          => isDirty = {"true"})

\* The behavior has run, form f1 is saved and form f2 is in the document
\* without a saved state.
C19_Witness ==
  /\ callbacks = {"dirtyforms"}
  /\ "f1" \in DOMAIN _savedElements
  /\ "f2" \in DOMAIN CurrentForms /\ "f2" \notin DOMAIN _savedElements
  /\ isDirty = {"true"}

\* ------------------------------------------------------------------------
\* C20
\* ------------------------------------------------------------------------

\* C20: a form carries the submit observer and the tracking metadata exactly
\* when _savedElements holds a state for it.
C20_ObserverIffSaved ==
  \A f \in FormNodes :
    (onsubmit[f] = OnSubmitObserver /\ f \in DOMAIN _dirtyForms)
      <=> Form[f].id \in DOMAIN _savedElements

====
